---- MODULE Spec2Model ----
(***************************************************************************)
(* Model of src/rendering.rs: the slide renderer of toggle_term.           *)
(*                                                                         *)
(* Strings are sequences of one-character strings.  The terminal sink is   *)
(* the sequence `out` of the directives written to it, in order; a flush   *)
(* is an entry of that sequence.  A panic (unwrap on None, arithmetic      *)
(* overflow, failed allocation) ends the call with pc = "panicked".        *)
(***************************************************************************)
EXTENDS Integers, Sequences, FiniteSets, TLC

VARIABLES
    pc,             \* position of the running render_slide call
    term,           \* the terminal's geometry [w, h], as terminal_size() reads it
    title,          \* presentation.metadata.title: None or Some(string)
    slide,          \* presentation.current_slide().lines(), a sequence of lines
    current_slide,  \* presentation.current_slide
    total_slides,   \* presentation.total_slides()
    line_i,         \* lines of the slide consumed by the body loop so far
    out,            \* directives written to stdout, in order
    sizes,          \* results of the terminal_size() calls of this render
    panic,          \* the panic that ended the call, or NoPanic
    resizes,        \* terminal resizes so far
    fin,            \* arguments of a single helper-function call
    fout            \* its result: None until it returns, then Some(result)

vars == <<pc, term, title, slide, current_slide, total_slides, line_i, out,
          sizes, panic, resizes, fin, fout>>

renderVars == <<pc, term, title, slide, current_slide, total_slides, line_i,
                out, sizes, panic, resizes>>

----------------------------------------------------------------------------
(* Bounds of the model *)

MaxLineLen == 6
MaxHashes == 5
MaxLines == 2

Alphabet == {"#", " ", "a"}

\* Option<T>: None, or Some(x)
None == <<>>
Some(x) == <<x>>
Unwrap(o) == o[1]

NoPanic == "NoPanic"
NoHeader == "NoHeader"

----------------------------------------------------------------------------
(* Strings *)

\* str::repeat
Repeat(c, n) == [i \in 1..n |-> c]

RECURSIVE StringsOfLen(_)
StringsOfLen(n) ==
    IF n = 0 THEN {<<>>}
    ELSE {<<c>> \o s : c \in Alphabet, s \in StringsOfLen(n - 1)}

Strings(n) == UNION {StringsOfLen(k) : k \in 0..n}

\* char::is_whitespace, on the model's alphabet
is_whitespace(c) == c = " "

\* s.chars().take_while(|c| *c == '#').count()
RECURSIVE LeadingHashes(_)
LeadingHashes(s) ==
    IF s # <<>> /\ Head(s) = "#" THEN 1 + LeadingHashes(Tail(s)) ELSE 0

\* str::trim_start_matches('#')
RECURSIVE trim_start_matches_hash(_)
trim_start_matches_hash(s) ==
    IF s # <<>> /\ Head(s) = "#" THEN trim_start_matches_hash(Tail(s)) ELSE s

\* a variant that keeps the whitespace after the marker
trim_start_kept(s) == s

\* str::trim_start
RECURSIVE trim_start(_)
trim_start(s) ==
    IF s # <<>> /\ is_whitespace(Head(s)) THEN trim_start(Tail(s)) ELSE s

\* line.trim().is_empty()
trim_is_empty(s) == \A k \in 1..Len(s) : is_whitespace(s[k])

\* line.starts_with("#")
starts_with_hash(s) == s # <<>> /\ Head(s) = "#"

----------------------------------------------------------------------------
(* Line classifier *)

extract_prefix(s) ==
    [prefix |-> Repeat("#", LeadingHashes(s)),
     rest   |-> trim_start(trim_start_matches_hash(s))]

header_by_prefix(prefix) ==
    CASE prefix = <<"#">>                -> "Header1"
      [] prefix = <<"#", "#">>           -> "Header2"
      [] prefix = <<"#", "#", "#">>      -> "Header3"
      [] prefix = <<"#", "#", "#", "#">> -> "Header4"
      [] OTHER                           -> NoHeader

HeaderColor(header) ==
    CASE header = "Header1" -> "green"
      [] header = "Header2" -> "teal"
      [] header = "Header3" -> "red"
      [] header = "Header4" -> "peach"

HeaderLevel(header) ==
    CASE header = "Header1" -> 1
      [] header = "Header2" -> 2
      [] header = "Header3" -> 3
      [] header = "Header4" -> 4
      [] OTHER              -> 0

\* The (line, color) pair the body loop of render_slide computes for one line;
\* Option::unwrap on None panics.
ClassifyLine(line) ==
    IF starts_with_hash(line)
    THEN LET ep     == extract_prefix(line)
             header == header_by_prefix(ep.prefix)
         IN  IF header = NoHeader
             THEN [panicked |-> TRUE, text |-> <<>>, header |-> NoHeader,
                   color |-> "none"]
             ELSE [panicked |-> FALSE, text |-> ep.rest, header |-> header,
                   color |-> HeaderColor(header)]
    ELSE [panicked |-> FALSE, text |-> line, header |-> NoHeader,
          color |-> "Reset"]

----------------------------------------------------------------------------
(* f32 arithmetic, as render_progress_bar uses it.  A positive f32 is a    *)
(* pair [m, k] standing for m / 2^k with a 24-bit significand m (IEEE 754  *)
(* binary32, round to nearest, ties to even).  Integers below 2^24 convert *)
(* to f32 exactly.                                                         *)

Pow2(k) == 2 ^ k

F32Bits == 24

\* n / d rounded to the nearest integer, ties to even
RoundHalfEven(n, d) ==
    LET q == n \div d
        r == n % d
    IN  IF 2 * r > d \/ (2 * r = d /\ q % 2 = 1) THEN q + 1 ELSE q

RECURSIVE DivShift(_, _, _)
DivShift(a, b, k) ==
    IF a * Pow2(k) >= Pow2(F32Bits - 1) * b THEN k ELSE DivShift(a, b, k + 1)

\* a as f32 / b as f32, for 1 <= a <= b
F32Div(a, b) ==
    LET k == DivShift(a, b, 0)
        m == RoundHalfEven(a * Pow2(k), b)
    IN  IF m = Pow2(F32Bits) THEN [m |-> Pow2(F32Bits - 1), k |-> k - 1]
        ELSE [m |-> m, k |-> k]

RECURSIVE MulShift(_, _)
MulShift(p, s) == IF p < Pow2(F32Bits) * Pow2(s) THEN s ELSE MulShift(p, s + 1)

\* (x * w as f32) as usize: the product is rounded to f32, the cast truncates
F32MulToUsize(x, w) ==
    LET p  == x.m * w
        s  == MulShift(p, 0)
        pm == RoundHalfEven(p, Pow2(s))
    IN  (pm * Pow2(s)) \div Pow2(x.k)

----------------------------------------------------------------------------
(* Directives written to the terminal sink *)

Builds == {"debug", "release"}

Dir(sec, kind, row, col, color, text, nl) ==
    [sec |-> sec, kind |-> kind, row |-> row, col |-> col, color |-> color,
     text |-> text, nl |-> nl]

Clear(sec)            == Dir(sec, "Clear", 0, 0, "none", <<>>, FALSE)
Goto(sec, col, row)   == Dir(sec, "Goto", row, col, "none", <<>>, FALSE)
Text(sec, color, txt) == Dir(sec, "Text", 0, 0, color, txt, FALSE)
TextLn(sec, color, txt) == Dir(sec, "Text", 0, 0, color, txt, TRUE)
CursorQuery(sec)      == Dir(sec, "CursorQuery", 0, 0, "none", <<>>, FALSE)
Flush(sec)            == Dir(sec, "Flush", 0, 0, "none", <<>>, FALSE)

Returned(dirs) == [panicked |-> FALSE, reason |-> NoPanic, dirs |-> dirs]
Panicked(why, dirs) == [panicked |-> TRUE, reason |-> why, dirs |-> dirs]

\* The row the terminal reports for DetectCursorPos::cursor_pos once it has
\* received `log`: that of the last cursor move, plus the line feeds since.
RECURSIVE CursorRow(_)
CursorRow(log) ==
    IF log = <<>> THEN 1
    ELSE LET d == log[Len(log)]
             before == SubSeq(log, 1, Len(log) - 1)
         IN  IF d.kind = "Goto" THEN d.row
             ELSE IF d.nl THEN CursorRow(before) + 1
             ELSE CursorRow(before)

----------------------------------------------------------------------------
(* render_text_centered *)

\* (width as usize - text.len()) / 2
CenterPadding(width, len) == (width - len) \div 2

\* the footer on the last row instead of the one above it
CenteredRowLast(goto_bottom, height, y) == IF goto_bottom THEN height ELSE y

\* if goto_bottom { height - 1 } else { y }
CenteredRow(goto_bottom, height, y) == IF goto_bottom THEN height - 1 ELSE y

\* `log` is what the sink holds when the call starts; `size` what
\* terminal_size() returns.  termion's cursor_pos writes the query ESC [ 6 n to
\* the sink and flushes it before it reads the terminal's answer.  usize subtraction overflows when the text is
\* longer than the width: a debug build panics there, a release build wraps
\* to about 2^63 spaces, which " ".repeat cannot allocate.
render_text_centered(sec, text, goto_bottom, color, size, log, build) ==
    IF Len(text) > size.w
    THEN Panicked(IF build = "debug" THEN "subtract with overflow"
                  ELSE "allocation failure", <<>>)
    ELSE LET padding == CenterPadding(size.w, Len(text))
             spaces  == Repeat(" ", padding)
             query   == <<CursorQuery(sec), Flush(sec)>>
             y       == CursorRow(log)
             y_position == CenteredRow(goto_bottom, size.h, y)
         IN  Returned(query \o <<Goto(sec, 1, y_position),
                                 Text(sec, color, spaces \o text)>>)

----------------------------------------------------------------------------
(* render_progress_bar *)

BlockChar == "B"

\* (progress_ratio * width as f32) as usize
progress_length(cur, total, width) ==
    F32MulToUsize(F32Div(cur + 1, total), width)

\* Both write! calls of render_progress_bar.  total = 0 makes the ratio
\* infinite and the cast usize::MAX, which String::repeat cannot allocate,
\* before anything is written.  A fill longer than the width overflows the
\* usize subtraction of the second write!, after the first one is written.
render_progress_bar(sec, cur, total, color, size, build) ==
    IF total = 0
    THEN Panicked("capacity overflow", <<>>)
    ELSE LET filled == progress_length(cur, total, size.w)
             first  == <<Goto(sec, 1, size.h),
                         Text(sec, color, Repeat(BlockChar, filled))>>
         IN  IF filled > size.w
             THEN Panicked(IF build = "debug" THEN "subtract with overflow"
                           ELSE "allocation failure", first)
             ELSE Returned(first \o
                           <<Text(sec, "none", Repeat(" ", size.w - filled)),
                             Goto(sec, 1, size.h + 1)>>)

----------------------------------------------------------------------------
(* render_text_top_right *)

U16 == 65536

\* width - text.len() as u16: a debug build panics on overflow, a release
\* build wraps modulo 2^16.
render_text_top_right(text, color, size, build) ==
    LET len == Len(text) % U16
        col == (size.w - len) % U16
    IN  IF build = "debug" /\ len > size.w
        THEN Panicked("subtract with overflow", <<>>)
        ELSE Returned(<<Goto("overlay", col, 1), Text("overlay", color, text),
                        Flush("overlay")>>)

----------------------------------------------------------------------------
(* render_slide, step by step.  The terminal can be resized by its user    *)
(* at any moment of the call; each helper reads the geometry when it runs. *)

MaxTitleLen == 12
MinW == 9
MaxW == 10
MinH == 6
MaxH == 7
MaxTotal == 2
MaxResizes == 1

Geometries == [w : MinW..MaxW, h : MinH..MaxH]

Titles == {None} \cup {Some(Repeat("a", n)) : n \in {2, MaxTitleLen}}

SlideLines ==
    {<<>>, <<" ">>, <<"a">>, <<"#", " ", "a">>, Repeat("#", MaxHashes)}

RECURSIVE SeqsOfLen(_, _)
SeqsOfLen(S, n) ==
    IF n = 0 THEN {<<>>}
    ELSE {<<x>> \o q : x \in S, q \in SeqsOfLen(S, n - 1)}

Slides == UNION {SeqsOfLen(SlideLines, n) : n \in 0..MaxLines}

\* .skip_while(|line| line.trim().is_empty())
RECURSIVE skip_while_blank(_)
skip_while_blank(lines) ==
    IF lines # <<>> /\ trim_is_empty(Head(lines))
    THEN skip_while_blank(Tail(lines))
    ELSE lines

\* i as u16 + 4
BodyRow(i) == i + 4

DigitChars == <<"0", "1", "2", "3", "4", "5", "6", "7", "8", "9">>

\* usize's Display
RECURSIVE usize_to_string(_)
usize_to_string(n) ==
    IF n < 10 THEN <<DigitChars[n + 1]>>
    ELSE usize_to_string(n \div 10) \o <<DigitChars[(n % 10) + 1]>>

\* format!("{}/{} slides", presentation.current_slide + 1, presentation.total_slides())
FooterText(cur, total) ==
    usize_to_string(cur + 1) \o <<"/">> \o usize_to_string(total)
        \o <<" ", "s", "l", "i", "d", "e", "s">>

Init ==
    /\ pc = "idle"
    /\ term \in Geometries
    /\ title \in Titles
    /\ slide \in Slides
    /\ total_slides \in 1..MaxTotal
    /\ current_slide \in 0..(total_slides - 1)
    /\ line_i = 0
    /\ out = <<>>
    /\ sizes = <<>>
    /\ panic = NoPanic
    /\ resizes = 0
    /\ fin = None
    /\ fout = None

Running == pc \in {"title", "body", "bar", "flush"}

\* The user resizes the terminal while render_slide runs.
Resize ==
    /\ Running
    /\ resizes < MaxResizes
    /\ \E g \in Geometries \ {term} : term' = g
    /\ resizes' = resizes + 1
    /\ UNCHANGED <<pc, title, slide, current_slide, total_slides, line_i, out,
                   sizes, panic, fin, fout>>

\* A helper returned `r`: its directives are written, and a panic ends the call.
Continue(r, next) ==
    /\ out' = out \o r.dirs
    /\ pc' = IF r.panicked THEN "panicked" ELSE next
    /\ panic' = r.reason

\* line 41
ClearScreen ==
    /\ pc = "idle"
    /\ out' = out \o <<Clear("clear"), Goto("clear", 1, 1)>>
    /\ pc' = "title"
    /\ UNCHANGED <<term, title, slide, current_slide, total_slides, line_i,
                   sizes, panic, resizes, fin, fout>>

\* lines 42-47
RenderTitle ==
    /\ pc = "title"
    /\ IF title = None
       THEN /\ Continue(Panicked("unwrap on None: title", <<>>), "body")
            /\ sizes' = sizes
       ELSE \E build \in Builds :
            /\ Continue(render_text_centered("title", Unwrap(title), FALSE,
                                             "red", term, out, build), "body")
            /\ sizes' = Append(sizes, term)
    /\ UNCHANGED <<term, title, slide, current_slide, total_slides, line_i,
                   resizes, fin, fout>>

\* lines 48-75, one iteration of the loop
RenderBodyLine ==
    /\ pc = "body"
    /\ line_i < Len(skip_while_blank(slide))
    /\ LET line == skip_while_blank(slide)[line_i + 1]
           c    == ClassifyLine(line)
       IN  IF c.panicked
           THEN Continue(Panicked("unwrap on None: header", <<>>), "body")
           ELSE Continue(Returned(<<Goto("body", 1, BodyRow(line_i)),
                                    TextLn("body", c.color, c.text)>>), "body")
    /\ line_i' = line_i + 1
    /\ UNCHANGED <<term, title, slide, current_slide, total_slides, sizes,
                   resizes, fin, fout>>

\* lines 76-86, once the loop is over
RenderFooter ==
    /\ pc = "body"
    /\ line_i = Len(skip_while_blank(slide))
    /\ \E build \in Builds :
         Continue(render_text_centered("footer",
                                       FooterText(current_slide, total_slides),
                                       TRUE, "green", term, out, build), "bar")
    /\ sizes' = Append(sizes, term)
    /\ UNCHANGED <<term, title, slide, current_slide, total_slides, line_i,
                   resizes, fin, fout>>

\* lines 87-92
RenderProgressBar ==
    /\ pc = "bar"
    /\ \E build \in Builds :
         Continue(render_progress_bar("bar", current_slide, total_slides,
                                      "green", term, build), "flush")
    /\ sizes' = Append(sizes, term)
    /\ UNCHANGED <<term, title, slide, current_slide, total_slides, line_i,
                   resizes, fin, fout>>

\* line 93
FinalFlush ==
    /\ pc = "flush"
    /\ out' = Append(out, Flush("flush"))
    /\ pc' = "done"
    /\ UNCHANGED <<term, title, slide, current_slide, total_slides, line_i,
                   sizes, panic, resizes, fin, fout>>

Next ==
    \/ ClearScreen
    \/ RenderTitle
    \/ RenderBodyLine
    \/ RenderFooter
    \/ RenderProgressBar
    \/ FinalFlush
    \/ Resize

Spec == Init /\ [][Next]_vars

----------------------------------------------------------------------------
(* Single calls of the helper functions on arbitrary arguments *)

MaxBarW == 23
MaxBarTotal == 23
MaxTextLen == 8
MaxTextW == 8

IdleRender ==
    /\ pc = "idle" /\ term = [w |-> MinW, h |-> MinH] /\ title = None
    /\ slide = <<>> /\ current_slide = 0 /\ total_slides = 1 /\ line_i = 0
    /\ out = <<>> /\ sizes = <<>> /\ panic = NoPanic /\ resizes = 0

\* the line classifier of render_slide's loop
InitClassify ==
    /\ IdleRender
    /\ fin \in {Some(a) : a \in [line : Strings(MaxLineLen)]}
    /\ fout = None

CallClassify ==
    /\ fout = None
    /\ fout' = Some(ClassifyLine(Unwrap(fin).line))
    /\ UNCHANGED <<fin, renderVars>>

SpecClassify == InitClassify /\ [][CallClassify]_vars

\* render_progress_bar, for current_slide <= total_slides: the slides of a
\* presentation (current_slide < total_slides), an empty presentation and an
\* index one past the end
InitProgress ==
    /\ IdleRender
    /\ fin \in {Some(a) : a \in {b \in [cur : 0..(MaxBarTotal - 1),
                                          total : 0..MaxBarTotal,
                                          w : 1..MaxBarW, h : {MinH}] :
                                      b.cur < b.total \/ b.cur = b.total}}
    /\ fout = None

CallProgress ==
    /\ fout = None
    /\ \E build \in Builds :
         LET a == Unwrap(fin)
         IN  fout' = Some(render_progress_bar("bar", a.cur, a.total, "green",
                                              [w |-> a.w, h |-> a.h], build))
    /\ UNCHANGED <<fin, renderVars>>

SpecProgress == InitProgress /\ [][CallProgress]_vars

\* render_text_centered
InitCentered ==
    /\ IdleRender
    /\ fin \in {Some(a) : a \in [len : 0..MaxTextLen, goto_bottom : BOOLEAN,
                                 w : 1..MaxTextW, h : MinH..MaxH, y : 1..2]}
    /\ fout = None

CallCentered ==
    /\ fout = None
    /\ \E build \in Builds :
         LET a == Unwrap(fin)
         IN  fout' = Some(render_text_centered("title", Repeat("a", a.len),
                              a.goto_bottom, "red", [w |-> a.w, h |-> a.h],
                              <<Goto("clear", 1, a.y)>>, build))
    /\ UNCHANGED <<fin, renderVars>>

SpecCentered == InitCentered /\ [][CallCentered]_vars

\* render_text_top_right
InitTopRight ==
    /\ IdleRender
    /\ fin \in {Some(a) : a \in [len : 0..MaxTextLen, w : 1..MaxTextW,
                                 color : {"red", "green"}]}
    /\ fout = None

CallTopRight ==
    /\ fout = None
    /\ \E build \in Builds :
         LET a == Unwrap(fin)
         IN  fout' = Some(render_text_top_right(Repeat("a", a.len), a.color,
                                                [w |-> a.w, h |-> MinH], build))
    /\ UNCHANGED <<fin, renderVars>>

SpecTopRight == InitTopRight /\ [][CallTopRight]_vars

----------------------------------------------------------------------------
(* Properties *)

Line(a) == Unwrap(a).line

\* out restricted to one section
RECURSIVE OfSection(_, _)
OfSection(log, sec) ==
    IF log = <<>> THEN <<>>
    ELSE IF Head(log).sec = sec THEN <<Head(log)>> \o OfSection(Tail(log), sec)
    ELSE OfSection(Tail(log), sec)

Flushes(log) == {j \in DOMAIN log : log[j].kind = "Flush"}

\* the slide's lines from its first non-blank line on
FirstNonBlank(lines) ==
    IF \E k \in DOMAIN lines : ~trim_is_empty(lines[k])
    THEN CHOOSE k \in DOMAIN lines :
            /\ ~trim_is_empty(lines[k])
            /\ \A j \in 1..(k - 1) : trim_is_empty(lines[j])
    ELSE Len(lines) + 1

Remaining(lines) == SubSeq(lines, FirstNonBlank(lines), Len(lines))

\* C1: a slide line that begins with five or more '#' is rendered as body
\* text, raw and in the default foreground colour, and render_slide does not
\* fail on it.
C1_LongHashRunIsBody ==
    \A k \in 1..line_i :
        LET line == Remaining(slide)[k]
        IN  LeadingHashes(line) >= 5 =>
              /\ panic # "unwrap on None: header"
              /\ \E j \in DOMAIN out :
                    /\ out[j] = TextLn("body", "Reset", line)
                    /\ j > 1 /\ out[j - 1] = Goto("body", 1, 3 + k)

\* C2: a line with n <= 4 leading '#' classifies as follows: n = 0 gives the
\* line unchanged and no heading; 1 <= n <= 4 gives heading level n and the
\* line without its n leading '#' and without the whitespace that follows
\* them, everything after that kept (trailing whitespace, later '#').
C2_Classification ==
    fout # None =>
        LET line == Line(fin)
            n    == LeadingHashes(line)
            r    == Unwrap(fout)
        IN  /\ n = 0 =>
                ~r.panicked /\ r.text = line /\ r.header = NoHeader
            /\ n \in 1..4 =>
                /\ ~r.panicked
                /\ HeaderLevel(r.header) = n
                /\ \E j \in n..Len(line) :
                      /\ r.text = SubSeq(line, j + 1, Len(line))
                      /\ \A i \in (n + 1)..j : line[i] = " "
                      /\ (r.text # <<>> => r.text[1] # " ")

C2_Witness ==
    /\ fout # None
    /\ Line(fin) = <<"#", "#", " ", "#", "a", " ">>
    /\ Unwrap(fout).header = "Header2"
    /\ Unwrap(fout).text = <<"#", "a", " ">>

\* C3: for 0 <= current_slide < total_slides, the bar is floor((current_slide
\* + 1) * W / total_slides) filled cells and then W - filled spaces on the
\* last row; the fill does not decrease with current_slide and is W on the
\* last slide.
C3_ProgressFill ==
    (fout # None /\ Unwrap(fin).cur < Unwrap(fin).total) =>
        LET a      == Unwrap(fin)
            r      == Unwrap(fout)
            filled == ((a.cur + 1) * a.w) \div a.total
        IN  /\ ~r.panicked
            /\ r.dirs = <<Goto("bar", 1, a.h),
                          Text("bar", "green", Repeat(BlockChar, filled)),
                          Text("bar", "none", Repeat(" ", a.w - filled)),
                          Goto("bar", 1, a.h + 1)>>
            /\ (a.cur = a.total - 1 => Len(r.dirs[2].text) = a.w)
            /\ \A c \in 0..(a.cur - 1) :
                  progress_length(c, a.total, a.w) <= Len(r.dirs[2].text)

\* What does hold of the bar: the row is W cells, the fill is the exact
\* quotient or one less, it does not decrease and is W on the last slide.
ProgressFillWithinOne ==
    (fout # None /\ Unwrap(fin).cur < Unwrap(fin).total) =>
        LET a      == Unwrap(fin)
            r      == Unwrap(fout)
            exact  == ((a.cur + 1) * a.w) \div a.total
            filled == Len(r.dirs[2].text)
        IN  /\ ~r.panicked
            /\ filled \in {exact - 1, exact} /\ filled >= 0
            /\ Len(r.dirs[2].text) + Len(r.dirs[3].text) = a.w
            /\ (a.cur = a.total - 1 => filled = a.w)
            /\ \A c \in 0..(a.cur - 1) :
                  progress_length(c, a.total, a.w) <= filled

\* C4: without a presentation title, render_slide does not fail.
C4_NoTitleStillRenders == title = None => pc # "panicked"

\* C5: centred text gets floor((W - L) / 2) spaces of left padding when
\* L <= W, so padding + L <= W; a text longer than W is written in full and
\* the call completes.
C5_CenteredPadding ==
    fout # None =>
        LET a == Unwrap(fin)
            r == Unwrap(fout)
        IN  /\ ~r.panicked
            /\ \E j \in DOMAIN r.dirs :
                  /\ r.dirs[j].kind = "Text"
                  /\ Len(r.dirs[j].text) >= a.len
                  /\ (a.len <= a.w =>
                        /\ Len(r.dirs[j].text) = (a.w - a.len) \div 2 + a.len
                        /\ Len(r.dirs[j].text) <= a.w)

\* C6: render_slide flushes the sink exactly once, after everything else is
\* written: no flush comes before the last write of the progress bar.
C6_SingleFinalFlush ==
    \A j \in Flushes(out) : j = Len(out) /\ pc = "done"

\* C7: every coordinate and length of one frame is computed from a single
\* (W, H) pair, also when the terminal is resized during the call.
C7_SingleGeometry ==
    \A i, j \in DOMAIN sizes : sizes[i] = sizes[j]

SecRank(sec) ==
    CASE sec = "clear"  -> 0
      [] sec = "title"  -> 1
      [] sec = "body"   -> 2
      [] sec = "footer" -> 3
      [] sec = "bar"    -> 4
      [] sec = "flush"  -> 5

Moves(log) == {j \in DOMAIN log : log[j].kind = "Goto"}

C9_BodyRows ==
    /\ \A k \in 1..line_i :
          \E j \in DOMAIN out :
             /\ out[j] = Goto("body", 1, 3 + k)
             /\ j < Len(out)
             /\ out[j + 1].sec = "body" /\ out[j + 1].kind = "Text"
    /\ line_i <= Len(Remaining(slide))
    /\ (pc \in {"bar", "flush", "done"} => line_i = Len(Remaining(slide)))
    /\ ((\A k \in DOMAIN slide : trim_is_empty(slide[k])) =>
           OfSection(out, "body") = <<>> /\ panic # "unwrap on None: header")

\* What does hold of the body rows: the lines written so far are the first
\* remaining lines, one row each from row 4, and only a heading marker that
\* header_by_prefix does not know stops the loop.
BodyRowsUntilPanic ==
    LET body == OfSection(out, "body")
        n    == Len(body) \div 2
    IN  /\ \A k \in 1..n : body[2 * k - 1] = Goto("body", 1, 3 + k)
        /\ n <= line_i /\ line_i <= Len(Remaining(slide))
        /\ n < line_i =>
              /\ n = line_i - 1
              /\ panic = "unwrap on None: header"
              /\ LeadingHashes(Remaining(slide)[line_i]) >= 5

\* C10: render_text_top_right writes the text on row 1 from column
\* W - text_length, in the given colour, and flushes; the column is a valid
\* 1-based coordinate for every text, column 1 when the text is at least as
\* wide as the terminal, and the subtraction does not fail.
C10_TopRightColumn ==
    fout # None =>
        LET a == Unwrap(fin)
            r == Unwrap(fout)
        IN  /\ ~r.panicked
            /\ r.dirs = <<Goto("overlay", IF a.len < a.w THEN a.w - a.len ELSE 1, 1),
                          Text("overlay", a.color, Repeat("a", a.len)),
                          Flush("overlay")>>

====
